---- MODULE Spec2Model ----
(***************************************************************************)
(* Electronics-Inventory: the CRUD handlers of app.py over the SQLite      *)
(* store of db.py.  Text values are sequences of one-character strings so  *)
(* that str.strip(), int(), LIKE and the INTEGER column affinity are       *)
(* computed character by character, as the code and SQLite compute them.   *)
(***************************************************************************)
EXTENDS Integers, Sequences, FiniteSets, TLC

VARIABLES
    parts,          \* table parts: a set of rows, one per id
    categories,     \* table categories: rows in rowid order (name)
    subcategories,  \* table subcategories: rows in rowid order (name)
    containers,     \* table containers: rows in rowid order (code, name)
    seq,            \* sqlite_sequence of parts (AUTOINCREMENT high-water mark)
    now,            \* the wall clock datetime('now') reads, in whole seconds
    last,           \* the request that completed last, with its response
    mutOrder,       \* history: ids of the stored parts, oldest last mutation first
    pc,             \* per worker thread: the statement its handler is at
    loc,            \* per worker thread: the handler's arguments and locals
    served          \* history: the number of requests received so far

vars == <<parts, categories, subcategories, containers, seq, now, last, mutOrder, pc, loc, served>>

store == <<parts, categories, subcategories, containers>>

----------------------------------------------------------------------------
\* Bounds of the model.

\* ids the AUTOINCREMENT counter may hand out
MaxParts == 2

\* seconds the clock may advance
MaxTime == 1

\* requests a behaviour may submit
MaxRequests == 3

\* requests a behaviour of the listing model may submit
MaxFetchRequests == 4

----------------------------------------------------------------------------
\* Python str and int, SQLite values.

Range(s) == {s[i] : i \in 1..Len(s)}

Whitespace == {" "}

Digits == {"0", "1", "2", "3", "4", "5", "6", "7", "8", "9"}

\* str.strip(): leading and trailing whitespace removed
RECURSIVE lstrip(_)
lstrip(s) ==
    IF s # <<>> /\ Head(s) \in Whitespace THEN lstrip(Tail(s)) ELSE s

RECURSIVE rstrip(_)
rstrip(s) ==
    IF s # <<>> /\ s[Len(s)] \in Whitespace THEN rstrip(SubSeq(s, 1, Len(s) - 1)) ELSE s

strip(s) == rstrip(lstrip(s))

\* a Python int: sign and decimal magnitude without leading zeros
RECURSIVE DropZeros(_)
DropZeros(d) ==
    IF Len(d) > 1 /\ Head(d) = "0" THEN DropZeros(Tail(d)) ELSE d

MkInt(neg, digits) ==
    LET mag == DropZeros(digits)
    IN  [neg |-> neg /\ mag # <<"0">>, mag |-> mag]

ValueError == [error |-> "ValueError"]

\* int(s): optional whitespace, optional sign, digits with single
\* underscores between them; anything else raises ValueError
int_digits(s) ==
    /\ s # <<>>
    /\ Range(s) \subseteq Digits \cup {"_"}
    /\ s[1] # "_" /\ s[Len(s)] # "_"
    /\ \A i \in 1..(Len(s) - 1) : ~(s[i] = "_" /\ s[i + 1] = "_")

int(s) ==
    LET t    == strip(s)
        neg  == t # <<>> /\ Head(t) = "-"
        body == IF t # <<>> /\ Head(t) \in {"-", "+"} THEN Tail(t) ELSE t
    IN  IF int_digits(body)
        THEN MkInt(neg, SelectSeq(body, LAMBDA c : c # "_"))
        ELSE ValueError

\* max(q, 0)
max0(q) == IF q.neg THEN MkInt(FALSE, <<"0">>) ELSE q

\* str(q)
str(q) == IF q.neg THEN <<"-">> \o q.mag ELSE q.mag

\* the largest SQLite INTEGER, 2^63 - 1, and the magnitude of the smallest
INT64_MIN_MAG == <<"9", "2", "2", "3", "3", "7", "2", "0", "3", "6", "8", "5", "4", "7", "7", "5", "8", "0", "8">>

INT64_MAX == <<"9", "2", "2", "3", "3", "7", "2", "0", "3", "6", "8", "5", "4", "7", "7", "5", "8", "0", "7">>

DigitSeq == <<"0", "1", "2", "3", "4", "5", "6", "7", "8", "9">>

DigitVal(c) == CHOOSE i \in 1..Len(DigitSeq) : DigitSeq[i] = c

\* a <= b for two magnitudes of the same length
RECURSIVE DigitsLeq(_, _)
DigitsLeq(a, b) ==
    IF a = <<>> THEN TRUE
    ELSE IF Head(a) # Head(b) THEN DigitVal(Head(a)) < DigitVal(Head(b))
    ELSE DigitsLeq(Tail(a), Tail(b))

\* whether a Python int is in the range of a 64-bit SQLite INTEGER
FitsInt64(q) ==
    \/ Len(q.mag) < Len(INT64_MAX)
    \/ Len(q.mag) = Len(INT64_MAX) /\ DigitsLeq(q.mag, INT64_MAX)
    \/ q.neg /\ q.mag = INT64_MIN_MAG

\* a TEXT value stored into a column of INTEGER affinity: a well-formed
\* integer literal becomes INTEGER when it fits 64 bits and REAL when it
\* does not; any other text stays TEXT
IntegerAffinity(text) ==
    LET q == int(text)
    IN  IF q = ValueError \/ "_" \in Range(text) THEN [cls |-> "text", val |-> text]
        ELSE IF FitsInt64(q) THEN [cls |-> "integer", val |-> q]
        ELSE [cls |-> "real", val |-> q]

\* ASCII lower case, the only case folding LIKE does
UpperCase == <<"A", "B", "C", "D", "E", "F", "G", "H", "I", "J", "K", "L", "M",
               "N", "O", "P", "Q", "R", "S", "T", "U", "V", "W", "X", "Y", "Z">>

LowerCase == <<"a", "b", "c", "d", "e", "f", "g", "h", "i", "j", "k", "l", "m",
               "n", "o", "p", "q", "r", "s", "t", "u", "v", "w", "x", "y", "z">>

lower_char(c) ==
    IF c \in Range(UpperCase)
    THEN LowerCase[CHOOSE i \in 1..Len(UpperCase) : UpperCase[i] = c]
    ELSE c

lower(s) == [i \in 1..Len(s) |-> lower_char(s[i])]

\* x LIKE pat: % matches any run of characters, _ any one character,
\* every other character itself without regard to ASCII case
RECURSIVE Like(_, _)
Like(pat, x) ==
    IF pat = <<>> THEN x = <<>>
    ELSE IF Head(pat) = "%"
         THEN \/ Like(Tail(pat), x)
              \/ x # <<>> /\ Like(pat, Tail(x))
    ELSE IF x = <<>> THEN FALSE
    ELSE IF Head(pat) = "_" THEN Like(Tail(pat), Tail(x))
    ELSE lower_char(Head(pat)) = lower_char(Head(x)) /\ Like(Tail(pat), Tail(x))

----------------------------------------------------------------------------
\* db.py: the lookup tables.

\* INSERT OR IGNORE into a table whose key column is unique: the row is
\* appended unless a row with that key is already there
InsertOrIgnore(table, key, row) ==
    IF \E i \in 1..Len(table) : table[i].key = key THEN table
    ELSE Append(table, row)

ensure_container_raw(table, code) ==
    IF code = <<>> THEN table
    ELSE InsertOrIgnore(table, code, [key |-> code, name |-> code])

ensure_container(table, code) ==
    LET c == strip(code)
    IN  IF c = <<>> THEN table
        ELSE InsertOrIgnore(table, c, [key |-> c, name |-> c])

ensure_category(table, name) ==
    LET n == strip(name)
    IN  IF n = <<>> THEN table
        ELSE InsertOrIgnore(table, n, [key |-> n])

ensure_subcategory_skip(table, name) == table

ensure_subcategory(table, name) ==
    LET n == strip(name)
    IN  IF n = <<>> THEN table
        ELSE InsertOrIgnore(table, n, [key |-> n])

Keys(table) == {table[i].key : i \in 1..Len(table)}

----------------------------------------------------------------------------
\* app.py: the parts table and the statements run on it.

ALLOWED_EDIT_FIELDS ==
    {"category", "subcategory", "description", "package", "container_id",
     "quantity", "notes", "datasheet_url", "pinout_url"}

Columns == ALLOWED_EDIT_FIELDS \cup {"id", "updated_at"}

Ids(table) == {r.id : r \in table}

RowOf(table, part_id) == CHOOSE r \in table : r.id = part_id

\* the value a column keeps of a bound TEXT parameter
ColumnValue(field, text) ==
    IF field = "quantity" THEN IntegerAffinity(text) ELSE text

UPDATE_all(table, field, text, part_id, t) ==
    {[r EXCEPT ![field] = ColumnValue(field, text), !.updated_at = t] : r \in table}

\* UPDATE parts SET <field> = ?, updated_at = datetime('now') WHERE id = ?
UPDATE(table, field, text, part_id, t) ==
    {IF r.id = part_id
     THEN [r EXCEPT ![field] = ColumnValue(field, text), !.updated_at = t]
     ELSE r : r \in table}

DELETE_others(table, part_id) == {r \in table : r.id = part_id}

\* DELETE FROM parts WHERE id = ?
DELETE(table, part_id) == {r \in table : r.id # part_id}

\* history: part_id becomes the part mutated last
Touch(order, part_id) == SelectSeq(order, LAMBDA i : i # part_id) \o <<part_id>>

Forget(order, part_id) == SelectSeq(order, LAMBDA i : i # part_id)

FieldAllowed_any(field) == TRUE

\* if field not in ALLOWED_EDIT_FIELDS: return 400
FieldAllowed(field) == field \in ALLOWED_EDIT_FIELDS

\* a completed exchange: the handler, its arguments, the status answered,
\* the rows the statement touched and the rows sent back
Exchange(op, args, status, rowcount, body) ==
    [op |-> op, args |-> args, status |-> status, rowcount |-> rowcount, body |-> body]

\* save_cell's normalisation of the submitted value
save_value(field, value) ==
    LET v == strip(value)
    IN  IF field = "quantity"
        THEN LET q == IF v # <<>> THEN int(v) ELSE MkInt(FALSE, <<"0">>)
             IN  str(max0(IF q = ValueError THEN MkInt(FALSE, <<"0">>) ELSE q))
        ELSE v  \* the second strip of datasheet_url and pinout_url changes nothing

\* FastAPI's reading of add_part's form: a required field that is missing
\* or empty, or a quantity that is no integer, is answered 422 before the
\* handler runs
FormValid(a) ==
    /\ a.category # <<>>
    /\ a.description # <<>>
    /\ int(a.quantity) # ValueError

\* the row add_part inserts
NewRow(id, a, t) ==
    [id            |-> id,
     category      |-> strip(a.category),
     subcategory   |-> strip(a.subcategory),
     description   |-> strip(a.description),
     package       |-> strip(a.package),
     container_id  |-> strip(a.container_id),
     quantity      |-> [cls |-> "integer", val |-> max0(int(a.quantity))],
     notes         |-> strip(a.notes),
     datasheet_url |-> strip(a.datasheet_url),
     pinout_url    |-> strip(a.pinout_url),
     updated_at    |-> t]

\* ORDER BY updated_at DESC, id DESC: whether r comes before o
Before_by_id(r, o) == r.id > o.id

Before(r, o) ==
    \/ r.updated_at > o.updated_at
    \/ r.updated_at = o.updated_at /\ r.id > o.id

RECURSIVE OrderBy(_)
OrderBy(rows) ==
    IF rows = {} THEN <<>>
    ELSE LET first == CHOOSE r \in rows : \A o \in rows \ {r} : Before(r, o)
         IN  <<first>> \o OrderBy(rows \ {first})

DEFAULT_LIMIT == 500

EXPORT_LIMIT == 100000

\* the WHERE clause fetch_parts assembles
Selected(r, q, category, container_id) ==
    /\ \/ strip(q) = <<>>
       \/ LET pat == <<"%">> \o strip(q) \o <<"%">>
          IN  \/ Like(pat, r.description)
              \/ Like(pat, r.notes)
              \/ Like(pat, r.subcategory)
              \/ Like(pat, r.package)
    /\ strip(category) = <<>> \/ r.category = strip(category)
    /\ strip(container_id) = <<>> \/ r.container_id = strip(container_id)

fetch_parts(q, category, container_id, limit) ==
    LET rows == OrderBy({r \in parts : Selected(r, q, category, container_id)})
    IN  SubSeq(rows, 1, IF Len(rows) < limit THEN Len(rows) ELSE limit)

CsvColumns ==
    {"id", "category", "subcategory", "description", "package", "container_id",
     "quantity", "notes", "updated_at"}

\* csv.DictWriter with extrasaction="ignore"
CsvRow(r) == [f \in CsvColumns |-> r[f]]

Threads == {1, 2}

Init ==
    /\ parts = {}
    /\ categories = <<>>
    /\ subcategories = <<>>
    /\ containers = <<>>
    /\ seq = 0
    /\ now = 0
    /\ last = Exchange("none", <<>>, 0, 0, <<>>)
    /\ mutOrder = <<>>
    /\ pc = [t \in Threads |-> "idle"]
    /\ loc = [t \in Threads |-> <<>>]
    /\ served = 0

\* one more request is received, of at most max
Receive(max) ==
    /\ served < max
    /\ served' = served + 1

----------------------------------------------------------------------------
\* The handlers, one request at a time.

\* add_part's INSERT, and its answer
AddInsert(a) ==
    IF FitsInt64(max0(int(a.quantity)))
    THEN /\ parts' = parts \cup {NewRow(seq + 1, a, now)}
         /\ seq' = seq + 1
         /\ mutOrder' = Touch(mutOrder, seq + 1)
         /\ last' = Exchange("add_part", <<a>>, 200, 1, <<>>)
    ELSE \* OverflowError binding the parameter
         /\ last' = Exchange("add_part", <<a>>, 500, 0, <<>>)
         /\ UNCHANGED <<parts, seq, mutOrder>>

\* POST /parts
add_part(a) ==
    /\ seq < MaxParts
    /\ UNCHANGED <<now, pc, loc>>
    /\ IF ~FormValid(a)
       THEN /\ last' = Exchange("add_part", <<a>>, 422, 0, <<>>)
            /\ UNCHANGED <<parts, categories, subcategories, containers, seq, mutOrder>>
       ELSE /\ categories' = ensure_category(categories, strip(a.category))
            /\ containers' = ensure_container(containers, a.container_id)
            /\ subcategories' = ensure_subcategory(subcategories, a.subcategory)
            /\ AddInsert(a)

\* POST /parts/{part_id}/delete
delete_part(part_id) ==
    /\ parts' = DELETE(parts, part_id)
    /\ mutOrder' = Forget(mutOrder, part_id)
    /\ last' = Exchange("delete_part", <<part_id>>, 200,
                        Cardinality(parts) - Cardinality(DELETE(parts, part_id)), <<>>)
    /\ UNCHANGED <<categories, subcategories, containers, seq, now, pc, loc>>

\* GET /parts/{part_id}/edit/{field}
edit_cell(part_id, field) ==
    /\ last' = IF ~FieldAllowed(field)
               THEN Exchange("edit_cell", <<part_id, field>>, 400, 0, <<>>)
               ELSE IF part_id \notin Ids(parts)
               THEN Exchange("edit_cell", <<part_id, field>>, 404, 0, <<>>)
               ELSE Exchange("edit_cell", <<part_id, field>>, 200, 0,
                             <<RowOf(parts, part_id)>>)
    /\ UNCHANGED <<parts, categories, subcategories, containers, seq, now, mutOrder,
                   pc, loc>>

\* save_cell's if/elif chain of ensure calls
SaveEnsure(field, v) ==
    /\ containers' = IF field = "container_id"
                     THEN ensure_container(containers, v) ELSE containers
    /\ categories' = IF field = "category"
                     THEN ensure_category(categories, v) ELSE categories
    /\ subcategories' = IF field = "subcategory"
                        THEN ensure_subcategory(subcategories, v) ELSE subcategories

\* save_cell's UPDATE and SELECT, and its answer
SaveUpdate(args, field, v) ==
    IF field \notin Columns
    THEN \* no such column: the statement fails
         /\ last' = Exchange("save_cell", args, 500, 0, <<>>)
         /\ UNCHANGED <<parts, mutOrder>>
    ELSE /\ parts' = UPDATE(parts, field, v, args[1], now)
         /\ IF args[1] \in Ids(parts)
            THEN /\ mutOrder' = Touch(mutOrder, args[1])
                 /\ last' = Exchange("save_cell", args, 200, 1,
                                     <<RowOf(parts', args[1])>>)
            ELSE /\ mutOrder' = mutOrder
                 /\ last' = Exchange("save_cell", args, 404, 0, <<>>)

\* POST /parts/{part_id}/edit/{field}
save_cell(part_id, field, value) ==
    /\ UNCHANGED <<seq, now, pc, loc>>
    /\ IF ~FieldAllowed(field)
       THEN /\ last' = Exchange("save_cell", <<part_id, field, value>>, 400, 0, <<>>)
            /\ UNCHANGED <<parts, categories, subcategories, containers, mutOrder>>
       ELSE /\ SaveEnsure(field, save_value(field, value))
            /\ SaveUpdate(<<part_id, field, value>>, field, save_value(field, value))

\* GET /partials/table
partial_table(q, category, container_id) ==
    /\ last' = Exchange("partial_table", <<q, category, container_id>>, 200, 0,
                        fetch_parts(q, category, container_id, DEFAULT_LIMIT))
    /\ UNCHANGED <<parts, categories, subcategories, containers, seq, now, mutOrder,
                   pc, loc>>

\* GET /export.csv
export_csv(q, category, container_id) ==
    /\ last' = LET rows == fetch_parts(q, category, container_id, EXPORT_LIMIT)
               IN  Exchange("export_csv", <<q, category, container_id>>, 200, 0,
                            [i \in 1..Len(rows) |-> CsvRow(rows[i])])
    /\ UNCHANGED <<parts, categories, subcategories, containers, seq, now, mutOrder,
                   pc, loc>>

\* the clock passes a second boundary
Tick ==
    /\ now < MaxTime
    /\ now' = now + 1
    /\ UNCHANGED <<parts, categories, subcategories, containers, seq, last, mutOrder,
                   pc, loc, served>>

----------------------------------------------------------------------------
\* The requests the sequential model submits.

Form(category, subcategory, description, container_id, quantity) ==
    [category |-> category, subcategory |-> subcategory, description |-> description,
     package |-> <<>>, container_id |-> container_id, quantity |-> quantity,
     notes |-> <<>>, datasheet_url |-> <<>>, pinout_url |-> <<>>]

TwoTo63 ==
    <<"9", "2", "2", "3", "3", "7", "2", "0", "3", "6", "8", "5", "4", "7", "7", "5", "8", "0", "8">>

AddInputs ==
    {Form(<<" ", "a", " ">>, <<"s">>, <<"d">>, <<" ", "B", "1">>, <<"-", "5">>),
     Form(<<" ">>, <<>>, <<"d">>, <<>>, <<"3">>),
     Form(<<>>, <<>>, <<"d">>, <<>>, <<"3">>),
     Form(<<"a">>, <<>>, <<"d">>, <<>>, <<"x">>),
     Form(<<"c">>, <<>>, <<"d">>, <<>>, TwoTo63)}

EditValues(field) ==
    CASE field = "quantity" ->
            {<<>>, <<"a", "b", "c">>, <<"-", "5">>, <<" ", "7", " ">>, TwoTo63}
      [] field = "category" -> {<<>>, <<" ", "b", " ">>}
      [] field = "container_id" -> {<<"B", "2", " ">>}
      [] field = "subcategory" -> {<<" ", "t">>}
      [] OTHER -> {<<" ", "x", " ">>}

BadFields == {"id", "updated_at", "bogus"}

PartIdInputs == 1..(MaxParts + 1)

Next ==
    \/ \E a \in AddInputs : Receive(MaxRequests) /\ add_part(a)
    \/ \E i \in PartIdInputs : Receive(MaxRequests) /\ delete_part(i)
    \/ \E i \in PartIdInputs, f \in ALLOWED_EDIT_FIELDS \cup BadFields :
          Receive(MaxRequests) /\ edit_cell(i, f)
    \/ \E i \in PartIdInputs, f \in ALLOWED_EDIT_FIELDS \cup BadFields :
          \E v \in EditValues(f) : Receive(MaxRequests) /\ save_cell(i, f, v)
    \/ Tick

Spec == Init /\ [][Next]_vars

----------------------------------------------------------------------------
\* The handlers statement by statement, on concurrent worker threads.  Each
\* ensure_* call and each "with get_conn()" block is one transaction.

Adding == {t \in Threads : pc[t] \in {"add_category", "add_container",
                                      "add_subcategory", "add_insert"}}

Goto(t, label) == pc' = [pc EXCEPT ![t] = label]

Return(t) ==
    /\ pc' = [pc EXCEPT ![t] = "idle"]
    /\ loc' = [loc EXCEPT ![t] = <<>>]

add_begin(t, a) ==
    /\ pc[t] = "idle"
    /\ Receive(MaxRequests)
    /\ seq + Cardinality(Adding) < MaxParts
    /\ UNCHANGED <<parts, categories, subcategories, containers, seq, now, mutOrder>>
    /\ IF ~FormValid(a)
       THEN /\ last' = Exchange("add_part", <<a>>, 422, 0, <<>>)
            /\ UNCHANGED <<pc, loc>>
       ELSE /\ Goto(t, "add_category")
            /\ loc' = [loc EXCEPT ![t] = [a |-> a]]
            /\ UNCHANGED last

add_category(t) ==
    /\ pc[t] = "add_category"
    /\ categories' = ensure_category(categories, strip(loc[t].a.category))
    /\ Goto(t, "add_container")
    /\ UNCHANGED <<parts, subcategories, containers, seq, now, last, mutOrder, loc, served>>

add_container(t) ==
    /\ pc[t] = "add_container"
    /\ containers' = ensure_container(containers, loc[t].a.container_id)
    /\ Goto(t, "add_subcategory")
    /\ UNCHANGED <<parts, categories, subcategories, seq, now, last, mutOrder, loc, served>>

add_subcategory(t) ==
    /\ pc[t] = "add_subcategory"
    /\ subcategories' = ensure_subcategory(subcategories, loc[t].a.subcategory)
    /\ Goto(t, "add_insert")
    /\ UNCHANGED <<parts, categories, containers, seq, now, last, mutOrder, loc, served>>

add_insert(t) ==
    /\ pc[t] = "add_insert"
    /\ AddInsert(loc[t].a)
    /\ Return(t)
    /\ UNCHANGED <<categories, subcategories, containers, now, served>>

save_begin(t, part_id, field, value) ==
    /\ pc[t] = "idle"
    /\ Receive(MaxRequests)
    /\ UNCHANGED <<parts, categories, subcategories, containers, seq, now, mutOrder>>
    /\ IF ~FieldAllowed(field)
       THEN /\ last' = Exchange("save_cell", <<part_id, field, value>>, 400, 0, <<>>)
            /\ UNCHANGED <<pc, loc>>
       ELSE /\ Goto(t, "save_ensure")
            /\ loc' = [loc EXCEPT ![t] = [args |-> <<part_id, field, value>>,
                                          value |-> save_value(field, value)]]
            /\ UNCHANGED last

save_ensure(t) ==
    /\ pc[t] = "save_ensure"
    /\ SaveEnsure(loc[t].args[2], loc[t].value)
    /\ Goto(t, "save_update")
    /\ UNCHANGED <<parts, seq, now, last, mutOrder, loc, served>>

save_update(t) ==
    /\ pc[t] = "save_update"
    /\ SaveUpdate(loc[t].args, loc[t].args[2], loc[t].value)
    /\ Return(t)
    /\ UNCHANGED <<categories, subcategories, containers, seq, now, served>>

ConcAddInputs ==
    {Form(<<"a", " ">>, <<" ", "s">>, <<"d">>, <<" ", "B", "1">>, <<"1">>),
     Form(<<" ", "a">>, <<" ">>, <<"d">>, <<"B", "1", " ">>, <<"1">>)}

ConcEditInputs ==
    {<<"category", <<" ", "b">>>>, <<"container_id", <<"B", "1">>>>,
     <<"container_id", <<" ">>>>, <<"subcategory", <<"s", " ">>>>,
     <<"notes", <<"n">>>>, <<"id", <<"1">>>>}

NextConc ==
    \/ \E t \in Threads, a \in ConcAddInputs : add_begin(t, a)
    \/ \E t \in Threads : add_category(t)
    \/ \E t \in Threads : add_container(t)
    \/ \E t \in Threads : add_subcategory(t)
    \/ \E t \in Threads : add_insert(t)
    \/ \E t \in Threads, i \in 1..MaxParts, e \in ConcEditInputs :
          save_begin(t, i, e[1], e[2])
    \/ \E t \in Threads : save_ensure(t)
    \/ \E t \in Threads : save_update(t)
    \/ \E i \in 1..MaxParts : Receive(MaxRequests) /\ delete_part(i)

SpecConc == Init /\ [][NextConc]_vars

----------------------------------------------------------------------------
\* Listing and export, one request at a time.

FetchAddInputs ==
    {Form(<<"c", "1">>, <<>>, <<"A", "b">>, <<"B", "1">>, <<"1">>),
     [Form(<<"c", "2">>, <<"x", "a">>, <<"d">>, <<>>, <<"1">>)
        EXCEPT !.notes = <<"%">>, !.package = <<"B">>]}

FetchEditInputs ==
    {<<"description", <<"b", "_">>>>, <<"category", <<"c", "1">>>>}

\* (q, category, container_id)
FilterInputs ==
    {<<<<>>, <<>>, <<>>>>,
     <<<<" ", "a", " ">>, <<>>, <<>>>>,
     <<<<"_">>, <<>>, <<>>>>,
     <<<<"%">>, <<" ", "c", "2">>, <<>>>>,
     <<<<"B">>, <<"c", "1", " ">>, <<" ", "B", "1">>>>,
     <<<<" ">>, <<" ">>, <<"B", "2">>>>}

NextFetch ==
    \/ \E a \in FetchAddInputs : Receive(MaxFetchRequests) /\ add_part(a)
    \/ \E i \in 1..MaxParts, e \in FetchEditInputs :
          Receive(MaxFetchRequests) /\ save_cell(i, e[1], e[2])
    \/ \E i \in 1..MaxParts : Receive(MaxFetchRequests) /\ delete_part(i)
    \/ \E f \in FilterInputs : Receive(MaxFetchRequests) /\ partial_table(f[1], f[2], f[3])
    \/ \E f \in FilterInputs : Receive(MaxFetchRequests) /\ export_csv(f[1], f[2], f[3])
    \/ Tick

SpecFetch == Init /\ [][NextFetch]_vars

----------------------------------------------------------------------------
\* Properties of the sequential model.

\* C1: every stored part's quantity is a non-negative integer.
C1_QuantityNonNegativeInteger ==
    \A r \in parts : r.quantity.cls = "integer" /\ ~r.quantity.val.neg

\* C2: an edit request (edit_cell or save_cell) naming a field outside
\* ALLOWED_EDIT_FIELDS is answered 400 and leaves parts, categories,
\* subcategories and containers as they were, whatever the part id and value.
C2_InvalidFieldRejected ==
    [][(/\ served' = served + 1
        /\ last'.op \in {"edit_cell", "save_cell"}
        /\ last'.args[2] \notin ALLOWED_EDIT_FIELDS)
       => (last'.status = 400 /\ store' = store)]_vars

C2_Witness ==
    /\ last.op = "save_cell"
    /\ last.status = 400
    /\ last.args[1] \in Ids(parts)

C5_CategoryDescriptionNonEmpty ==
    \A r \in parts : r.category # <<>> /\ r.description # <<>>

\* C8: a save_cell answered 200 on part p and field f changes, in the parts
\* table, only f and updated_at of p: no row is added or removed and every
\* other column of p and every column of every other row keeps its value.
C8_SaveCellFrame ==
    [][(served' = served + 1 /\ last'.op = "save_cell" /\ last'.status = 200) =>
        /\ Ids(parts') = Ids(parts)
        /\ Cardinality(parts') = Cardinality(parts)
        /\ \A r \in parts : \A c \in Columns :
              \/ r.id = last'.args[1] /\ c \in {last'.args[2], "updated_at"}
              \/ RowOf(parts', r.id)[c] = r[c]]_vars

C8_Witness ==
    /\ last.op = "save_cell"
    /\ last.status = 200
    /\ last.args[2] = "category"
    /\ Cardinality(parts) = 2
    /\ RowOf(parts, last.args[1]).category = <<"b">>

\* C10: a save_cell answered 404 leaves parts, categories, subcategories and
\* containers as they were.
C10_NotFoundLeavesStore ==
    [][(served' = served + 1 /\ last'.op = "save_cell" /\ last'.status = 404)
       => store' = store]_vars

----------------------------------------------------------------------------
\* Properties of the concurrent model.

\* the names a thread has passed to an ensure_* call that has returned
EnsuredCategory(t) ==
    IF pc[t] \in {"add_container", "add_subcategory", "add_insert"}
    THEN {loc[t].a.category}
    ELSE IF pc[t] = "save_update" /\ loc[t].args[2] = "category"
    THEN {loc[t].args[3]}
    ELSE {}

EnsuredContainer(t) ==
    IF pc[t] \in {"add_subcategory", "add_insert"}
    THEN {loc[t].a.container_id}
    ELSE IF pc[t] = "save_update" /\ loc[t].args[2] = "container_id"
    THEN {loc[t].args[3]}
    ELSE {}

EnsuredSubcategory(t) ==
    IF pc[t] = "add_insert"
    THEN {loc[t].a.subcategory}
    ELSE IF pc[t] = "save_update" /\ loc[t].args[2] = "subcategory"
    THEN {loc[t].args[3]}
    ELSE {}

Entries(table, name) == {i \in 1..Len(table) : strip(table[i].key) = strip(name)}

OneEntryEach(table, names) ==
    /\ \A i \in 1..Len(table) : table[i].key # <<>> /\ Entries(table, table[i].key) = {i}
    /\ \A n \in names :
          Cardinality(Entries(table, n)) = IF strip(n) = <<>> THEN 0 ELSE 1

\* C4: in each lookup table, every name an ensure_* call was given has exactly
\* one entry, stored trimmed, however often, with whatever surrounding
\* whitespace and from whichever interleaved requests it was ensured; a name
\* that is empty or all whitespace has no entry.
C4_EnsureIdempotent ==
    /\ OneEntryEach(categories, UNION {EnsuredCategory(t) : t \in Threads})
    /\ OneEntryEach(containers, UNION {EnsuredContainer(t) : t \in Threads})
    /\ OneEntryEach(subcategories, UNION {EnsuredSubcategory(t) : t \in Threads})

C4_Witness ==
    /\ EnsuredContainer(1) # {} /\ EnsuredContainer(2) # {}
    /\ EnsuredContainer(1) # EnsuredContainer(2)
    /\ EnsuredSubcategory(2) = {<<" ">>}
    /\ Len(containers) = 1
    /\ Len(subcategories) = 0

\* C9: every stored part whose category, subcategory or container_id is not
\* empty has an entry of that name in categories, subcategories or containers.
C9_LookupExists ==
    \A r \in parts :
        /\ r.category # <<>> => r.category \in Keys(categories)
        /\ r.subcategory # <<>> => r.subcategory \in Keys(subcategories)
        /\ r.container_id # <<>> => r.container_id \in Keys(containers)

C9_Witness ==
    /\ \E r \in parts :
          r.category # <<>> /\ r.subcategory # <<>> /\ r.container_id # <<>>
    /\ \E r \in parts : r.category = <<"b">>
    /\ \E t \in Threads : pc[t] = "add_insert"

----------------------------------------------------------------------------
\* Properties of the listing model.

\* whether needle occurs in hay as a substring, without regard to case
Contains(hay, needle) ==
    \E i \in 0..(Len(hay) - Len(needle)) :
        lower(SubSeq(hay, i + 1, i + Len(needle))) = lower(needle)

\* the filters as the specification words them: the trimmed q is a substring,
\* without regard to case, of description, notes, subcategory or package;
\* category and container_id equal their trimmed filters; an empty or
\* all-whitespace filter restricts nothing
Matches(r, q, category, container_id) ==
    /\ \/ strip(q) = <<>>
       \/ Contains(r.description, strip(q))
       \/ Contains(r.notes, strip(q))
       \/ Contains(r.subcategory, strip(q))
       \/ Contains(r.package, strip(q))
    /\ strip(category) = <<>> \/ r.category = strip(category)
    /\ strip(container_id) = <<>> \/ r.container_id = strip(container_id)

Matching(q, category, container_id) ==
    {r \in parts : Matches(r, q, category, container_id)}

\* C6: when the matches are within the limit, the listing returns exactly the
\* parts that satisfy every supplied filter: none that fails one, all that
\* satisfy them.
C6_ListingExact ==
    (last.op = "partial_table"
       /\ Cardinality(Matching(last.args[1], last.args[2], last.args[3])) <= DEFAULT_LIMIT)
    => Range(last.body) = Matching(last.args[1], last.args[2], last.args[3])

\* every matching part is one row of the export, the rows are the CSV columns
\* of stored parts, no part has two rows
ExportedOnce ==
    /\ \A r \in Matching(last.args[1], last.args[2], last.args[3]) :
          \E i \in 1..Len(last.body) : last.body[i] = CsvRow(r)
    /\ \A i \in 1..Len(last.body) : \E r \in parts : last.body[i] = CsvRow(r)
    /\ \A i, j \in 1..Len(last.body) : last.body[i].id = last.body[j].id => i = j

\* the rows are in descending updated_at, then descending id, order
ExportedInOrder ==
    \A i, j \in 1..Len(last.body) :
        i < j => \/ last.body[i].updated_at > last.body[j].updated_at
                 \/ /\ last.body[i].updated_at = last.body[j].updated_at
                    /\ last.body[i].id > last.body[j].id

Position(order, x) == CHOOSE k \in 1..Len(order) : order[k] = x

\* no row comes after the row of a part whose last mutation was earlier
ExportedByMutation ==
    \A i, j \in 1..Len(last.body) :
        i < j => Position(mutOrder, last.body[i].id) > Position(mutOrder, last.body[j].id)

\* C7 as claimed: the export holds every matching part exactly once, in
\* descending updated_at then descending id order, so that a part mutated
\* later never comes after a part whose last mutation was earlier.
C7_ExportOrderedByMutation ==
    (last.op = "export_csv" /\ Cardinality(parts) <= EXPORT_LIMIT)
    => (ExportedOnce /\ ExportedInOrder /\ ExportedByMutation)

\* C7 as amended: with at most EXPORT_LIMIT parts stored, the export holds
\* every matching part exactly once, in descending updated_at then descending
\* id order; a row never comes after a row with an earlier updated_at.
C7_ExportOrdered ==
    (last.op = "export_csv" /\ Cardinality(parts) <= EXPORT_LIMIT)
    => (ExportedOnce /\ ExportedInOrder)

C7_Witness ==
    /\ last.op = "export_csv"
    /\ Len(last.body) = 2
    /\ last.body[1].id < last.body[2].id
    /\ Cardinality(Matching(last.args[1], last.args[2], last.args[3])) = 2

====
